---- MODULE Spec2Model ----
(***************************************************************************)
(* Model of the Act comparison tool: the segmenter of src/parser.py        *)
(* (normalize, split_sections, _split_subsections, _make_section_ref) and  *)
(* the aligner of src/compare.py (match_sections, _status, _row,           *)
(* _row_updates_from_new).                                                 *)
(*                                                                         *)
(* Texts are TLA+ strings; a character is a string of length 1.            *)
(* src/parser.py carries escaped quotes from line 20 on and doubled        *)
(* backslashes from line 127 on; the model reads the file with that        *)
(* escaping undone ("\n".join, \s, \d in the patterns).                    *)
(* A float score is modelled as an exact fraction <<n, d>> in lowest       *)
(* terms (100.0 is <<100, 1>>).                                            *)
(***************************************************************************)
EXTENDS Integers, Sequences, FiniteSets, TLC

(***************************************************************************)
(* Characters and the str methods the code uses.                           *)
(***************************************************************************)
Ch(s, i) == SubSeq(s, i, i)

Digits == {"0", "1", "2", "3", "4", "5", "6", "7", "8", "9"}

Lowers == {"a", "b", "c", "d", "e", "f", "g", "h", "i", "j", "k", "l", "m",
           "n", "o", "p", "q", "r", "s", "t", "u", "v", "w", "x", "y", "z"}

Uppers == {"A", "B", "C", "D", "E", "F", "G", "H", "I", "J", "K", "L", "M",
           "N", "O", "P", "Q", "R", "S", "T", "U", "V", "W", "X", "Y", "Z"}

\* \s of the patterns and the characters str.strip() and str.split() drop
Whitespace == {" ", "\t", "\n", "\r", "\f"}

\* the characters str.splitlines() breaks a text at
LineBreaks == {"\n", "\r", "\f"}

\* \w of the patterns
WordChars == Digits \cup Lowers \cup Uppers \cup {"_"}

\* the characters of the model's texts, by increasing code point (sorted())
Ascii == "\t\n\f\r !\"#$%&'()*+,-./0123456789:;<=>?@ABCDEFGHIJKLMNOPQRSTUVWXYZ[\\]^_abcdefghijklmnopqrstuvwxyz{|}~"

Ord(c) == CHOOSE i \in 1..Len(Ascii) : Ch(Ascii, i) = c

LowerTable == "abcdefghijklmnopqrstuvwxyz"

UpperTable == "ABCDEFGHIJKLMNOPQRSTUVWXYZ"

LowerCh(c) == IF c \in Uppers
              THEN Ch(LowerTable, CHOOSE i \in 1..26 : Ch(UpperTable, i) = c)
              ELSE c

\* the end (exclusive) of the longest run of characters of cls starting at i
RunEnd(s, i, cls) ==
    IF i > Len(s) THEN i
    ELSE CHOOSE j \in i..(Len(s) + 1) :
             /\ j > Len(s) \/ Ch(s, j) \notin cls
             /\ \A k \in i..(j - 1) : Ch(s, k) \in cls

\* the end (exclusive) of the longest run of characters not of cls from i
RunEndNot(s, i, cls) ==
    IF i > Len(s) THEN i
    ELSE CHOOSE j \in i..(Len(s) + 1) :
             /\ j > Len(s) \/ Ch(s, j) \in cls
             /\ \A k \in i..(j - 1) : Ch(s, k) \notin cls

\* the position before the longest run of characters of cls that ends at i
RunStart(s, i, cls) ==
    IF i < 1 THEN i
    ELSE CHOOSE j \in 0..i :
             /\ j = 0 \/ Ch(s, j) \notin cls
             /\ \A k \in (j + 1)..i : Ch(s, k) \in cls

SkipWs(s, i) == RunEnd(s, i, Whitespace)

SkipWsBack(s, i) == RunStart(s, i, Whitespace)

\* str.strip()
Strip(s) == SubSeq(s, SkipWs(s, 1), SkipWsBack(s, Len(s)))

\* what a character-wise rewriting of s leaves of s[i]
Rewritten(how, s, i) ==
    CASE how = "lower" -> LowerCh(Ch(s, i))
      [] how = "blanks" ->
            IF Ch(s, i) \notin {" ", "\t"} THEN Ch(s, i)
            ELSE IF i > 1 /\ Ch(s, i - 1) \in {" ", "\t"} THEN "" ELSE " "
      [] how = "cr" -> IF Ch(s, i) = "\r" THEN "\n" ELSE Ch(s, i)
      [] how = "newlines" ->
            IF i > 2 /\ SubSeq(s, i - 2, i) = "\n\n\n" THEN "" ELSE Ch(s, i)
      [] how = "slug" ->
            IF Ch(s, i) \in Lowers \cup Digits THEN Ch(s, i)
            ELSE IF i > 1 /\ Ch(s, i - 1) \notin Lowers \cup Digits THEN "" ELSE "_"

\* the rewriting of s[lo..hi], by halves
RECURSIVE Rewrite(_, _, _, _)
Rewrite(how, s, lo, hi) ==
    IF lo > hi THEN ""
    ELSE IF lo = hi THEN Rewritten(how, s, lo)
    ELSE Rewrite(how, s, lo, (lo + hi) \div 2) \o Rewrite(how, s, (lo + hi) \div 2 + 1, hi)

\* str.lower()
Lower(s) == Rewrite("lower", s, 1, Len(s))

\* s[i:] starts with the word w, compared case-insensitively (re.I)
StartsWithAt(s, i, w) == /\ i + Len(w) - 1 <= Len(s)
                         /\ Lower(SubSeq(s, i, i + Len(w) - 1)) = w

\* the items of q at the positions of S, in the order of q
Pick(q, S) ==
    [n \in 1..Cardinality(S) |-> q[CHOOSE i \in S : Cardinality({j \in S : j <= i}) = n]]

\* sep.join(parts)
RECURSIVE Join(_, _)
Join(parts, sep) == IF parts = <<>> THEN ""
                    ELSE IF Len(parts) = 1 THEN parts[1]
                    ELSE parts[1] \o sep \o Join(Tail(parts), sep)

\* the position after the line break at e: the pair \r\n is one line break
AfterBreak(s, e) ==
    IF e < Len(s) /\ Ch(s, e) = "\r" /\ Ch(s, e + 1) = "\n" THEN e + 2 ELSE e + 1

\* str.splitlines(): no empty last line after a final line break
RECURSIVE SplitLinesFrom(_, _)
SplitLinesFrom(s, i) ==
    IF i > Len(s) THEN <<>>
    ELSE <<SubSeq(s, i, RunEndNot(s, i, LineBreaks) - 1)>>
         \o SplitLinesFrom(s, AfterBreak(s, RunEndNot(s, i, LineBreaks)))

SplitLines(s) == SplitLinesFrom(s, 1)

\* str.split(): the maximal runs of non-whitespace characters
RECURSIVE SplitFrom(_, _)
RECURSIVE SplitToken(_, _)
SplitFrom(s, i) == SplitToken(s, SkipWs(s, i))

SplitToken(s, a) ==
    IF a > Len(s) THEN <<>>
    ELSE <<SubSeq(s, a, RunEndNot(s, a, Whitespace) - 1)>>
         \o SplitFrom(s, RunEndNot(s, a, Whitespace))

Split(s) == SplitFrom(s, 1)

(***************************************************************************)
(* normalize (src/parser.py)                                               *)
(***************************************************************************)
\* re.sub(r'[ \t]+', ' ', text)
CollapseBlanks(s) == Rewrite("blanks", s, 1, Len(s))

\* text.replace('\r', '\n')
ReplaceCr(s) == Rewrite("cr", s, 1, Len(s))

\* re.sub(r'\n{3,}', '\n\n', text)
CollapseNewlines(s) == Rewrite("newlines", s, 1, Len(s))

\* the texts of the model hold no \xa0, so line 24 changes nothing
normalize(text) == Strip(CollapseNewlines(ReplaceCr(CollapseBlanks(text))))

(***************************************************************************)
(* The patterns of src/parser.py, matched as re.match matches them. A      *)
(* piece of a pattern is an operator from the position where it starts to  *)
(* the position after its match, 0 when it does not match.                 *)
(***************************************************************************)
\* Python's None: a value that is no text, written as a string whose first
\* character is outside the characters of the model's texts (Ascii)
None == "¬None"

Roman == {"i", "v", "x", "I", "V", "X"}

LettersHyphen == Lowers \cup Uppers \cup {"-"}

\* \b at the position between s[p-1] and s[p]
WordBoundary(s, p) ==
    (p - 1 >= 1 /\ Ch(s, p - 1) \in WordChars) # (p <= Len(s) /\ Ch(s, p) \in WordChars)

\* .*$ from position i: no newline before the end of the string
DotStarToEnd(s, i) == \A j \in i..Len(s) : Ch(s, j) # "\n" \/ j = Len(s)

\* \s+ at p
Ws1(s, p) == IF p # 0 /\ SkipWs(s, p) > p THEN SkipWs(s, p) ELSE 0

\* \s* at p
Ws0(s, p) == IF p # 0 THEN SkipWs(s, p) ELSE 0

\* the character c at p
Expect(s, p, c) == IF p # 0 /\ p <= Len(s) /\ Ch(s, p) = c THEN p + 1 ELSE 0

\* cls+ at p, the longest run
Run1(s, p, cls) == IF p # 0 /\ RunEnd(s, p, cls) > p THEN RunEnd(s, p, cls) ELSE 0

\* (chapter|part|schedule) at p, with re.I
ChapterKw(s, p) == IF StartsWithAt(s, p, "chapter") THEN p + 7
                   ELSE IF StartsWithAt(s, p, "part") THEN p + 4
                   ELSE IF StartsWithAt(s, p, "schedule") THEN p + 8
                   ELSE 0

\* (section|sec\.) at p, with re.I
SectionKw(s, p) == IF StartsWithAt(s, p, "section") THEN p + 7
                   ELSE IF StartsWithAt(s, p, "sec.") THEN p + 4
                   ELSE 0

\* ([ivx]+|\d+)\b at p, with re.I
Numeral(s, p) ==
    IF Run1(s, p, Roman) # 0 /\ WordBoundary(s, Run1(s, p, Roman)) THEN Run1(s, p, Roman)
    ELSE IF Run1(s, p, Digits) # 0 /\ WordBoundary(s, Run1(s, p, Digits))
         THEN Run1(s, p, Digits)
    ELSE 0

\* ^\s*(chapter|part|schedule)\s+([ivx]+|\d+)\b.*$ with re.I
PAT_CHAPTER_PART(line) ==
    /\ Numeral(line, Ws1(line, ChapterKw(line, SkipWs(line, 1)))) # 0
    /\ DotStarToEnd(line, Numeral(line, Ws1(line, ChapterKw(line, SkipWs(line, 1)))))

\* the longest end p in lo..hi of a match that \b(.*)$ can follow; the
\* greedy [A-Za-z\-]* gives characters back until \b holds
RECURSIVE GreedyEnd(_, _, _)
GreedyEnd(s, lo, p) ==
    IF p < lo THEN 0
    ELSE IF WordBoundary(s, p) /\ DotStarToEnd(s, p) THEN p
    ELSE GreedyEnd(s, lo, p - 1)

\* (\d+[A-Za-z\-]*)\b(.*)$ at b: the end of group 2
SectionNumber(s, b) ==
    IF Run1(s, b, Digits) = 0 THEN 0
    ELSE GreedyEnd(s, Run1(s, b, Digits), RunEnd(s, Run1(s, b, Digits), LettersHyphen))

SectionGroups(s, b, e) == IF e # 0 THEN [ok |-> TRUE, g2 |-> SubSeq(s, b, e - 1)]
                          ELSE [ok |-> FALSE, g2 |-> ""]

SectionAt(s, b) == SectionGroups(s, b, SectionNumber(s, b))

\* ^\s*(section|sec\.)\s+(\d+[A-Za-z\-]*)\b(.*)$ with re.I: [ok, g2]
PAT_SECTION(line) == SectionAt(line, Ws1(line, SectionKw(line, SkipWs(line, 1))))

ShoutyFrom(line, a, last) ==
    /\ a <= Len(line)
    /\ Ch(line, a) \in Uppers
    /\ last - a >= 5
    /\ \A j \in (a + 1)..last : Ch(line, j) \in Uppers \cup {" ", "-", "&", ".", ","}

\* ^\s*[A-Z][A-Z \-\&\.\,]{5,}$ ($ also matches before a last newline)
PAT_SHOUTY(line) ==
    ShoutyFrom(line, SkipWs(line, 1),
               IF Len(line) > 1 /\ Ch(line, Len(line)) = "\n" THEN Len(line) - 1
               ELSE Len(line))

\* the end (exclusive) of (\.\d+)* from position i
RECURSIVE DottedEnd(_, _)
DottedEnd(s, i) ==
    IF i <= Len(s) /\ Ch(s, i) = "." /\ RunEnd(s, i + 1, Digits) > i + 1
    THEN DottedEnd(s, RunEnd(s, i + 1, Digits))
    ELSE i

\* (\d+(\.\d+)*) at p
Dotted(s, p) == IF Run1(s, p, Digits) = 0 THEN 0 ELSE DottedEnd(s, Run1(s, p, Digits))

NumHeadingAt(line, f) == f # 0 /\ f <= Len(line) /\ Ch(line, f) \in WordChars \cup {"(", ")"}

\* ^\s*(\d+(\.\d+)*)\s+[\w\(\)]
PAT_NUM_HEADING(line) == NumHeadingAt(line, Ws1(line, Dotted(line, SkipWs(line, 1))))

\* the marker of a subsection at b: a run of characters of cls, one
\* character when single
MarkerEnd(s, b, cls, single) ==
    IF single THEN (IF b # 0 /\ b <= Len(s) /\ Ch(s, b) \in cls THEN b + 1 ELSE 0)
    ELSE Run1(s, b, cls)

\* the groups of a match whose marker is in b..e-1 and whose (.*) starts at
\* d: the pattern has no $, so group 2 runs to the next newline or the end
SubsecGroups(ln, b, e, d) ==
    IF d # 0
    THEN [ok |-> TRUE, ref |-> SubSeq(ln, b, e - 1),
          rest |-> SubSeq(ln, d, RunEndNot(ln, d, {"\n"}) - 1)]
    ELSE [ok |-> FALSE, ref |-> "", rest |-> ""]

SubsecMarker(ln, b, e) == SubsecGroups(ln, b, e, Ws1(ln, Expect(ln, Ws0(ln, e), ")")))

SubsecAt(ln, cls, single, b) == SubsecMarker(ln, b, MarkerEnd(ln, b, cls, single))

\* ^\s*\(\s*(<marker>)\s*\)\s+(.*) : [ok, ref, rest]
SubsecMatch(ln, cls, single) ==
    SubsecAt(ln, cls, single, Ws0(ln, Expect(ln, SkipWs(ln, 1), "(")))

PAT_SUBSEC_MAIN(ln) == SubsecMatch(ln, Digits, FALSE)

PAT_SUBSEC_ALPHA(ln) == SubsecMatch(ln, Lowers, TRUE)

PAT_SUBSEC_ROMAN(ln) == SubsecMatch(ln, Roman, FALSE)

(***************************************************************************)
(* _split_subsections and _make_section_ref (src/parser.py)                *)
(***************************************************************************)
\* flush() of _split_subsections on the state [out, current_ref, current_buf]
SubFlush(t) ==
    IF t.current_buf # <<>>
    THEN [out |-> Append(t.out,
                         <<IF t.current_ref = None THEN "" ELSE t.current_ref,
                           Strip(Join(t.current_buf, "\n"))>>),
          current_ref |-> None,
          current_buf |-> <<>>]
    ELSE t

\* the first of the three patterns that matches, lines 157-159
FirstMatch(m1, m2, m3) == IF m1.ok THEN m1 ELSE IF m2.ok THEN m2 ELSE m3

SubLineWith(t, ln, m) ==
    IF m.ok
    THEN [SubFlush(t) EXCEPT !.current_ref = "(" \o m.ref \o ")",
                             !.current_buf = <<m.rest>>]
    ELSE [t EXCEPT !.current_buf = Append(@, ln)]

\* one turn of the loop over the lines of a body
SubLine(t, ln) ==
    SubLineWith(t, ln, FirstMatch(PAT_SUBSEC_MAIN(ln), PAT_SUBSEC_ALPHA(ln),
                                  PAT_SUBSEC_ROMAN(ln)))

RECURSIVE SubLines(_, _)
SubLines(t, lns) == IF lns = <<>> THEN t ELSE SubLines(SubLine(t, Head(lns)), Tail(lns))

\* the pairs <<ref, text>> of a section body, lines 149-175
SubPairs(body) ==
    SubFlush(SubLines([out |-> <<>>, current_ref |-> None, current_buf |-> <<>>],
                      SplitLines(body))).out

\* line 175: the pairs of blank text dropped
NonBlank(out) == Pick(out, {i \in 1..Len(out) : Strip(out[i][2]) # ""})

_split_subsections(body) == NonBlank(SubPairs(body))

\* (section|sec\.)\s+(\d+[A-Za-z\-]*) with re.I matches at position i
SectionHit(h, i) == Run1(h, Ws1(h, SectionKw(h, i)), Digits) # 0

\* the first position where it matches, 0 when there is none
FirstSectionHit(h) ==
    IF \E i \in 1..Len(h) : SectionHit(h, i)
    THEN CHOOSE i \in 1..Len(h) : SectionHit(h, i) /\ \A k \in 1..(i - 1) : ~SectionHit(h, k)
    ELSE 0

SearchSectionAt(h, b) ==
    [ok |-> TRUE,
     g2 |-> SubSeq(h, b, RunEnd(h, Run1(h, b, Digits), LettersHyphen) - 1)]

SearchSectionFrom(h, i) ==
    IF i = 0 THEN [ok |-> FALSE, g2 |-> ""]
    ELSE SearchSectionAt(h, Ws1(h, SectionKw(h, i)))

\* re.search of line 130: [ok, g2]
SearchSection(h) == SearchSectionFrom(h, FirstSectionHit(h))

\* re.sub(r'[^a-z0-9]+', '_', s)
SlugFrom(s) == Rewrite("slug", s, 1, Len(s))

\* str.strip('_')
StripUnderscores(s) == SubSeq(s, RunEnd(s, 1, {"_"}), RunStart(s, Len(s), {"_"}))

\* the length the slug of a heading is cut to, line 140
SlugLen == 40

\* s[:n]
Prefix(s, n) == SubSeq(s, 1, IF Len(s) < n THEN Len(s) ELSE n)

\* lines 139-140
SlugRef(heading) == "h_" \o Prefix(StripUnderscores(SlugFrom(Lower(heading))), SlugLen)

\* (chapter|part) at p, with re.I
ChapterPartKw(s, p) == IF StartsWithAt(s, p, "chapter") THEN p + 7
                       ELSE IF StartsWithAt(s, p, "part") THEN p + 4
                       ELSE 0

\* lines 136-140, with the keyword in a..kwEnd-1 and the numeral in b..e-1
ChapterRefAt(heading, a, kwEnd, b, e) ==
    IF e # 0
    THEN Lower(SubSeq(heading, a, kwEnd - 1)) \o "_" \o Lower(SubSeq(heading, b, e - 1))
    ELSE SlugRef(heading)

ChapterRefFrom(heading, a, kwEnd, b) == ChapterRefAt(heading, a, kwEnd, b, Numeral(heading, b))

ChapterRef(heading, a, kwEnd) == ChapterRefFrom(heading, a, kwEnd, Ws1(heading, kwEnd))

\* lines 133-140, from the first non-blank position a
NumRef(heading, a) ==
    IF Dotted(heading, a) # 0 THEN "num_" \o SubSeq(heading, a, Dotted(heading, a) - 1)
    ELSE ChapterRef(heading, a, ChapterPartKw(heading, a))

\* lines 130-140, m the result of the search of line 130
SectionRefOf(heading, m) ==
    IF m.ok THEN "section_" \o Lower(m.g2) ELSE NumRef(heading, SkipWs(heading, 1))

_make_section_ref(heading) ==
    IF heading = None \/ heading = "" THEN ""
    ELSE SectionRefOf(heading, SearchSection(heading))

(***************************************************************************)
(* split_sections (src/parser.py). The locals of one call are the record   *)
(* [topic, subtopic, current_section_id, current_section_heading,          *)
(*  current_section_body, units].                                          *)
(***************************************************************************)
SegStart == [topic |-> None, subtopic |-> None,
             current_section_id |-> None, current_section_heading |-> None,
             current_section_body |-> <<>>, units |-> <<>>]

\* x or ""
OrEmpty(x) == IF x = None THEN "" ELSE x

SegReset(st) == [st EXCEPT !.current_section_id = None,
                           !.current_section_heading = None,
                           !.current_section_body = <<>>]

\* one unit of the section being flushed, lines 59-66 and 68-75
NewUnit(st, ref, sub, txt) ==
    [topic |-> OrEmpty(st.topic),
     subtopic |-> OrEmpty(st.subtopic),
     section_ref |-> ref,
     section_heading |-> OrEmpty(st.current_section_heading),
     subsection_ref |-> sub,
     text |-> txt]

\* current_section_id or _make_section_ref(current_section_heading)
SectionRef(st) ==
    IF st.current_section_id \in {None, ""}
    THEN _make_section_ref(st.current_section_heading)
    ELSE st.current_section_id

UnitsOf(st, body, subsections, ref) ==
    IF subsections = <<>>
    THEN <<NewUnit(st, ref, "", body)>>
    ELSE [i \in 1..Len(subsections) |->
             NewUnit(st, ref, subsections[i][1], Strip(subsections[i][2]))]

\* lines 56-75: the units of the section being flushed
SectionUnits(st, body) == UnitsOf(st, body, _split_subsections(body), SectionRef(st))

\* lines 46-77, body the stripped text of the section
FlushBody(st, body) ==
    IF body = "" /\ st.current_section_heading \in {None, ""}
    THEN SegReset(st)
    ELSE SegReset([st EXCEPT !.units = @ \o SectionUnits(st, body)])

flush_section(st) ==
    IF st.current_section_heading = None /\ st.current_section_body = <<>>
    THEN st
    ELSE FlushBody(st, Strip(Join(st.current_section_body, "\n")))

KindOf(st, line, isSection) ==
    IF line = "" THEN "blank"
    ELSE IF PAT_CHAPTER_PART(line) THEN "chapter"
    ELSE IF PAT_SHOUTY(line) /\ ~isSection THEN "shouty"
    ELSE IF isSection THEN "section"
    ELSE IF PAT_NUM_HEADING(line) /\ st.current_section_heading = None THEN "numeric"
    ELSE "body"

\* which branch of the loop body a raw line takes
LineKind(st, raw) == KindOf(st, Strip(raw), PAT_SECTION(Strip(raw)).ok)

OnBlank(st, raw) == [st EXCEPT !.current_section_body = Append(@, raw)]

OnChapter(st, raw) == [flush_section(st) EXCEPT !.topic = Strip(raw), !.subtopic = None]

OnShouty(st, raw) == [flush_section(st) EXCEPT !.subtopic = Strip(raw)]

OnSection(st, raw) ==
    [flush_section(st) EXCEPT
        !.current_section_id = "section_" \o Lower(PAT_SECTION(Strip(raw)).g2),
        !.current_section_heading = Strip(raw)]

\* lines 112-114 on the state f the flush of line 111 leaves
NumericHeading(f, raw) ==
    [f EXCEPT !.subtopic = IF f.subtopic = None THEN Strip(raw) ELSE f.subtopic,
              !.current_section_body = Append(@, raw)]

OnNumeric(st, raw) == NumericHeading(flush_section(st), raw)

OnBody(st, raw) == [st EXCEPT !.current_section_body = Append(@, raw)]

OnLine(st, raw, k) ==
    IF k = "blank" THEN OnBlank(st, raw)
    ELSE IF k = "chapter" THEN OnChapter(st, raw)
    ELSE IF k = "shouty" THEN OnShouty(st, raw)
    ELSE IF k = "section" THEN OnSection(st, raw)
    ELSE IF k = "numeric" THEN OnNumeric(st, raw)
    ELSE OnBody(st, raw)

\* the loop body, lines 79-118
SegLine(st, raw) == OnLine(st, raw, LineKind(st, raw))

\* backfill refs, lines 122-124
\* a return without the backfill of lines 122-124
BackfillWith(u, ref) ==
    [u EXCEPT !.section_ref = IF ref = "" THEN "auto_section" ELSE ref]

\* a return without the backfill of lines 122-124
BackfillSkipped(u) == u

Backfill(u) ==
    IF u.section_ref = "" THEN BackfillWith(u, _make_section_ref(u.section_heading))
    ELSE u

BackfillAll(us) == [i \in 1..Len(us) |-> Backfill(us[i])]

\* the last flush and the backfill, lines 120-125: the units returned
SegFinish(st) == BackfillAll(flush_section(st).units)

RECURSIVE SegLines(_, _)
SegLines(st, lns) == IF lns = <<>> THEN st ELSE SegLines(SegLine(st, Head(lns)), Tail(lns))

split_sections(text) == SegFinish(SegLines(SegStart, SplitLines(normalize(text))))

(***************************************************************************)
(* fuzz.token_set_ratio, as src/compare.py calls it (no processor, no      *)
(* score cutoff). A score 100 - 100 * dist / lensum is the fraction        *)
(* <<n, d>> in lowest terms.                                               *)
(***************************************************************************)
RECURSIVE GCD(_, _)
GCD(a, b) == IF b = 0 THEN a ELSE GCD(b, a % b)

Frac(n, d) == <<n \div GCD(n, d), d \div GCD(n, d)>>

\* the float 100.0 of line 60 and the float 0.0 of lines 25 and 55
Hundred == Frac(100, 1)

Zero == Frac(0, 1)

\* score >= k for an integer k
ScoreGE(f, k) == f[1] >= k * f[2]

\* f > g
ScoreGT(f, g) == f[1] * g[2] > g[1] * f[2]

ScoreMax(f, g) == IF ScoreGT(g, f) THEN g ELSE f

\* the length of the longest common prefix of a and b
CommonPrefix(a, b) ==
    CHOOSE p \in 0..Len(a) :
        /\ p <= Len(b)
        /\ SubSeq(a, 1, p) = SubSeq(b, 1, p)
        /\ p = Len(a) \/ p = Len(b) \/ Ch(a, p + 1) # Ch(b, p + 1)

StrLessAfter(a, b, p) ==
    IF p = Len(b) THEN FALSE
    ELSE IF p = Len(a) THEN TRUE
    ELSE Ord(Ch(a, p + 1)) < Ord(Ch(b, p + 1))

\* a < b for strings, by code point
StrLess(a, b) == StrLessAfter(a, b, CommonPrefix(a, b))

\* sorted(S) for a set of strings
RECURSIVE Sorted(_)
Sorted(S) ==
    IF S = {} THEN <<>>
    ELSE LET m == CHOOSE a \in S : \A b \in S \ {a} : StrLess(a, b)
         IN  <<m>> \o Sorted(S \ {m})

SeqToSet(q) == {q[i] : i \in 1..Len(q)}

\* what the columns after the first of a row of the table of longest common
\* subsequences take from the row above: prev[k] is the length for
\* a[1..i-1] and b[1..k-1], c the character a[i]
FromAbove(c, b, prev) ==
    [k \in 1..Len(b) |-> IF c = Ch(b, k) THEN prev[k] + 1 ELSE prev[k + 1]]

\* the running maximum of q[lo..hi] from base on, by halves
RECURSIVE RunningMax(_, _, _, _)
RunningMax(q, lo, hi, base) ==
    IF lo > hi THEN <<>>
    ELSE IF lo = hi THEN <<IF q[lo] > base THEN q[lo] ELSE base>>
    ELSE LET left == RunningMax(q, lo, (lo + hi) \div 2, base)
         IN  left \o RunningMax(q, (lo + hi) \div 2 + 1, hi, left[Len(left)])

\* the row of a[1..i] from the row prev of a[1..i-1]: a column is the
\* largest of what it and the columns before it take from the row above
LcsRow(c, b, prev) == <<0>> \o RunningMax(FromAbove(c, b, prev), 1, Len(b), 0)

\* the last row of the table for a[lo..hi] under the row prev, by halves
RECURSIVE LcsRows(_, _, _, _, _)
LcsRows(a, b, lo, hi, prev) ==
    IF lo > hi THEN prev
    ELSE IF lo = hi THEN LcsRow(Ch(a, lo), b, prev)
    ELSE LET half == LcsRows(a, b, lo, (lo + hi) \div 2, prev)
         IN  IF Len(half) = Len(b) + 1
             THEN LcsRows(a, b, (lo + hi) \div 2 + 1, hi, half)
             ELSE half

\* the insertions and deletions that turn a into b, strings with no common
\* first character
LcsDistance(a, b) ==
    Len(a) + Len(b) - 2 * LcsRows(a, b, 1, Len(a), [j \in 1..(Len(b) + 1) |-> 0])[Len(b) + 1]

IndelAfter(a, b, p) == LcsDistance(SubSeq(a, p + 1, Len(a)), SubSeq(b, p + 1, Len(b)))

\* the number of insertions and deletions that turn a into b; a common
\* prefix costs nothing and is set aside first
indel_distance(a, b) == IndelAfter(a, b, CommonPrefix(a, b))

_norm_distance(dist, lensum) ==
    IF lensum = 0 THEN Hundred ELSE Frac(100 * lensum - 100 * dist, lensum)

\* the best of the three ratios, from the lengths of the joined token lists
\* and the distance between the two joined differences
BestRatio(sect_len, ab_len, ba_len, dist) ==
    LET sep == IF sect_len # 0 THEN 1 ELSE 0
        sect_ab_len == sect_len + sep + ab_len
        sect_ba_len == sect_len + sep + ba_len
    IN  IF sect_len = 0 THEN _norm_distance(dist, sect_ab_len + sect_ba_len)
        ELSE ScoreMax(ScoreMax(_norm_distance(dist, sect_ab_len + sect_ba_len),
                               _norm_distance(sep + ab_len, sect_len + sect_ab_len)),
                      _norm_distance(sep + ba_len, sect_len + sect_ba_len))

JoinedRatio(sect_len, diff_ab_joined, diff_ba_joined) ==
    BestRatio(sect_len, Len(diff_ab_joined), Len(diff_ba_joined),
              indel_distance(diff_ab_joined, diff_ba_joined))

TokenSetRatio(tokens_a, tokens_b) ==
    IF tokens_a = {} \/ tokens_b = {} THEN Zero
    ELSE IF tokens_a \cap tokens_b # {} /\ (tokens_a \subseteq tokens_b \/ tokens_b \subseteq tokens_a)
         THEN Hundred
    ELSE JoinedRatio(Len(Join(Sorted(tokens_a \cap tokens_b), " ")),
                     Join(Sorted(tokens_a \ tokens_b), " "),
                     Join(Sorted(tokens_b \ tokens_a), " "))

token_set_ratio(s1, s2) ==
    IF s1 = None \/ s2 = None THEN Zero
    ELSE TokenSetRatio(SeqToSet(Split(s1)), SeqToSet(Split(s2)))

(***************************************************************************)
(* _status, _row, _row_updates_from_new (src/compare.py)                   *)
(***************************************************************************)
\* the thresholds of lines 62 and 63
MinorEditMin == 90

ModifiedMin == 65

\* what a call returns when None.strip() raises
AttributeError == <<"AttributeError", <<>>>>

\* the thresholds taken as strict
GradedStrictly(sim) ==
    IF ScoreGT(sim, <<MinorEditMin, 1>>) THEN <<"Minor edit", sim>>
    ELSE IF ScoreGT(sim, <<ModifiedMin, 1>>) THEN <<"Modified", sim>>
    ELSE <<"Substantially modified", sim>>

\* lines 62-64
Graded(sim) ==
    IF ScoreGE(sim, MinorEditMin) THEN <<"Minor edit", sim>>
    ELSE IF ScoreGE(sim, ModifiedMin) THEN <<"Modified", sim>>
    ELSE <<"Substantially modified", sim>>

_status(old, new) ==
    IF old = None \/ new = None THEN AttributeError
    ELSE IF Strip(old) = Strip(new) THEN <<"Unchanged", Hundred>>
    ELSE Graded(token_set_ratio(old, new))

\* the unit given as None
NoUnit == [topic |-> None, subtopic |-> None, section_ref |-> None,
           section_heading |-> None, subsection_ref |-> None, text |-> None]

_row(ou, nu, status, sim, how) ==
    [old_topic |-> ou.topic, old_subtopic |-> ou.subtopic,
     old_section_ref |-> ou.section_ref, old_section_heading |-> ou.section_heading,
     old_subsection_ref |-> ou.subsection_ref, old_text |-> ou.text,
     new_topic |-> nu.topic, new_subtopic |-> nu.subtopic,
     new_section_ref |-> nu.section_ref, new_section_heading |-> nu.section_heading,
     new_subsection_ref |-> nu.subsection_ref, new_text |-> nu.text,
     status |-> status, similarity |-> sim, match_method |-> how]

\* r.update(_row_updates_from_new(nu, status, sim, how))
_row_updates_from_new(r, nu, status, sim, how) ==
    [r EXCEPT !.new_topic = nu.topic, !.new_subtopic = nu.subtopic,
              !.new_section_ref = nu.section_ref,
              !.new_section_heading = nu.section_heading,
              !.new_subsection_ref = nu.subsection_ref, !.new_text = nu.text,
              !.status = IF status # "Removed" THEN status ELSE "Modified",
              !.similarity = sim, !.match_method = how]

(***************************************************************************)
(* match_sections (src/compare.py). A dict is the sequence of its items    *)
(* <<key, value>> in insertion order.                                      *)
(***************************************************************************)
key(u) == <<u.topic, u.subtopic, u.section_ref, u.subsection_ref>>

DictKeys(d) == {d[i][1] : i \in 1..Len(d)}

DictGet(d, k) == d[CHOOSE i \in 1..Len(d) : d[i][1] = k][2]

\* a dict in which the first value of a key stays
DictPutFirst(d, k, v) == IF k \in DictKeys(d) THEN d ELSE Append(d, <<k, v>>)

\* d[k] = v: a key already present keeps its place and takes the new value
DictPut(d, k, v) ==
    IF k \in DictKeys(d)
    THEN [i \in 1..Len(d) |-> IF d[i][1] = k THEN <<k, v>> ELSE d[i]]
    ELSE Append(d, <<k, v>>)

\* { key(u): u for u in units }
RECURSIVE UnitMapFrom(_, _)
UnitMapFrom(units, d) ==
    IF units = <<>> THEN d
    ELSE UnitMapFrom(Tail(units), DictPut(d, key(Head(units)), Head(units)))

UnitMap(units) == UnitMapFrom(units, <<>>)

\* lines 22-23, st what _status returns
ExactRow(ou, nu, st) == _row(ou, nu, st[1], st[2], "exact_key")

\* the row of one item of old_map, lines 19-25
RowOf(kv, new_map) ==
    IF kv[1] \in DictKeys(new_map)
    THEN ExactRow(kv[2], DictGet(new_map, kv[1]),
                  _status(kv[2].text, DictGet(new_map, kv[1]).text))
    ELSE _row(kv[2], NoUnit, "Removed", Zero, "unmatched_old")

\* 1) exact key match, lines 18-25: the rows, one for each item of old_map
ExactRows(old_map, new_map) == [i \in 1..Len(old_map) |-> RowOf(old_map[i], new_map)]

\* the positions in matched of the rows of removed_rows, line 28
RemovedRows(rows) ==
    Pick([i \in 1..Len(rows) |-> i], {i \in 1..Len(rows) : rows[i].status = "Removed"})

\* remaining_new, line 29
RemainingNew(old_map, new_map) ==
    Pick(new_map, {i \in 1..Len(new_map) : new_map[i][1] \notin DictKeys(old_map)})

SameSection(r, remaining) ==
    Pick(remaining,
         {i \in 1..Len(remaining) : remaining[i][2].section_ref = r.old_section_ref})

\* the candidates of a row, lines 34-36
Candidates(r, remaining) ==
    IF SameSection(r, remaining) # <<>> THEN SameSection(r, remaining) ELSE remaining

\* the score of a candidate against the query of a row, lines 39 and 43
HeadingScore(r, v) ==
    token_set_ratio(r.old_subtopic \o " " \o r.old_section_heading,
                    Strip(v.subtopic \o " " \o v.section_heading))

\* the loop of lines 42-46 from candidate i on: <<position of best, best_score>>
RECURSIVE BestFrom(_, _, _, _, _)
RECURSIVE BestNext(_, _, _, _, _, _)
BestFrom(r, cands, i, best, best_score) ==
    IF i > Len(cands) THEN <<best, best_score>>
    ELSE BestNext(r, cands, i, best, best_score, HeadingScore(r, cands[i][2]))

BestNext(r, cands, i, best, best_score, score) ==
    IF ScoreGT(score, best_score)
    THEN BestFrom(r, cands, i + 1, i, score)
    ELSE BestFrom(r, cands, i + 1, best, best_score)

\* best_score = -1 of line 41
MinusOne == <<-1, 1>>

Best(r, cands) == BestFrom(r, cands, 1, 0, MinusOne)

\* the threshold of line 47
FuzzyMin == 80

\* a pop that leaves the candidate in the pool
DictPopNothing(d, k) == d

\* remaining_new.pop(k, None)
DictPop(d, k) == Pick(d, {i \in 1..Len(d) : d[i][1] # k})

\* 3) leftovers are Added, lines 54-55
AddedRows(remaining) ==
    [i \in 1..Len(remaining) |-> _row(NoUnit, remaining[i][2], "Added", Zero, "new_only")]

\* lines 47-51 for the row r taken over by the candidate vbest, st what
\* _status returns
Upgraded(r, vbest, st) == _row_updates_from_new(r, vbest, st[1], st[2], "fuzzy_heading")

UpgradeBy(rows, remaining, pos, kbest, vbest) ==
    <<[i \in 1..Len(rows) |->
          IF i = pos
          THEN Upgraded(rows[pos], vbest, _status(rows[pos].old_text, vbest.text))
          ELSE rows[i]],
      DictPop(remaining, kbest)>>

\* lines 47-51 for the row at position pos of the rows and the best
\* candidate b found for it: <<the rows, remaining_new>> after them
Upgrade(rows, remaining, pos, cands, b) ==
    IF b[1] # 0 /\ ScoreGE(b[2], FuzzyMin)
    THEN UpgradeBy(rows, remaining, pos, cands[b[1]][1], cands[b[1]][2])
    ELSE <<rows, remaining>>

FuzzyAmong(rows, remaining, pos, cands) ==
    Upgrade(rows, remaining, pos, cands, Best(rows[pos], cands))

\* the body of the loop of lines 30-51 for the row at position pos
FuzzyStep(rows, remaining, pos) ==
    FuzzyAmong(rows, remaining, pos, Candidates(rows[pos], remaining))

\* the loop of lines 30-51 from position i of removed on
RECURSIVE FuzzyLoop(_, _, _, _)
RECURSIVE FuzzyLoopAfter(_, _, _)
FuzzyLoop(rows, removed, remaining, i) ==
    IF i > Len(removed) \/ remaining = <<>> THEN <<rows, remaining>>
    ELSE FuzzyLoopAfter(removed, i, FuzzyStep(rows, remaining, removed[i]))

FuzzyLoopAfter(removed, i, after) == FuzzyLoop(after[1], removed, after[2], i + 1)

\* lines 54-56
WithAdded(after) == after[1] \o AddedRows(after[2])

\* lines 27-56 on the rows of phase 1
MatchRows(old_map, new_map, rows) ==
    WithAdded(FuzzyLoop(rows, RemovedRows(rows), RemainingNew(old_map, new_map), 1))

MatchMaps(old_map, new_map) == MatchRows(old_map, new_map, ExactRows(old_map, new_map))

\* the list a whole call returns
match_sections(old, new) == MatchMaps(UnitMap(old), UnitMap(new))

(***************************************************************************)
(* The inputs of the model.                                                *)
(***************************************************************************)
\* the sequences over S of at most n elements
SeqsUpTo(S, n) == UNION {[1..k -> S] : k \in 0..n}

\* the lines a text given to split_sections is made of ("\r" is an empty
\* line that ends with a carriage return)
SegPieces == {"CHAPTER II", "PRELIMINARY", "Section 5 Penalty", "3.2 Scope",
              "(1) A fine", "(a) by notice", "The Act  applies.", "", "\r"}

MaxLines == 3

SegTexts == {Join(q, "\n") : q \in SeqsUpTo(SegPieces, MaxLines)}

Unit(t, s, ref, h, sub, txt) ==
    [topic |-> t, subtopic |-> s, section_ref |-> ref, section_heading |-> h,
     subsection_ref |-> sub, text |-> txt]

\* units of the old document: the first two share their key
OldPool == {Unit("", "", "section_5", "Section 5 Penalty", "", "fine 100"),
            Unit("", "", "section_5", "Section 5 Penalty", "", "fine 500"),
            Unit("", "PRELIMINARY", "auto_section", "", "", "scope")}

\* units of the new document: the first two share their key
NewPool == {Unit("", "", "section_5", "Section 5 Penalty", "", "fine 100"),
            Unit("", "", "section_5", "Section 5 Penalty", "", "fine 500"),
            Unit("", "", "section_6", "Section 6 Penalty", "", "fine 100"),
            Unit("", "", "section_7", "Section 7 Penalty", "", "fine 100"),
            Unit("CHAPTER II", "", "section_5", "Section 5 Penalties", "", "fine 500"),
            Unit("", "PRELIMINARY", "auto_section", "", "", "scope")}

MaxOld == 3

MaxNew == 2

\* the lines of the two documents of a whole comparison: the two one-line
\* texts of the worked example of the specification, and two lines with the
\* same subsection marker
WorkedOld == "Section 5 Penalty (1) A fine of 100 shall apply."

WorkedNew == "Section 5 Penalty (1) A fine of 500 shall apply."

DocPieces == {WorkedOld, WorkedNew, "(a) by notice", "(a) by order"}

MaxDocLines == 2

DocTexts == {Join(q, "\n") : q \in SeqsUpTo(DocPieces, MaxDocLines)}

\* n copies of the character c
RECURSIVE Rep(_, _)
Rep(c, n) == IF n = 0 THEN "" ELSE c \o Rep(c, n - 1)

\* the arguments of _status: texts whose scores lie on both sides of the
\* thresholds, and None
StatusArgs == {None, "", "a b", " a b\n", "b a",
               "aaaaaaaaaa", "aaaaaaaaab",
               Rep("a", 89) \o Rep("b", 11), Rep("a", 89) \o Rep("c", 11),
               Rep("a", 13) \o Rep("b", 7), Rep("a", 13) \o Rep("c", 7),
               Rep("a", 8) \o Rep("b", 4), Rep("a", 8) \o Rep("c", 5)}

(***************************************************************************)
(* State.                                                                  *)
(***************************************************************************)
VARIABLES
    pc,             \* where the run stands
    text,           \* split_sections: the argument
    lines,          \* split_sections: text.splitlines() after normalize
    li,             \* split_sections: the position of the next line
    seg,            \* split_sections: the locals, as in SegStart
    units,          \* split_sections: the list returned
    old_text,       \* app: the text of the old document
    new_text,       \* app: the text of the new document
    old_units,      \* match_sections: the argument old_units
    new_units,      \* match_sections: the argument new_units
    matched,        \* match_sections: the list of rows
    removed_rows,   \* match_sections: the positions in matched of removed_rows
    remaining_new,  \* match_sections: the dict remaining_new
    ri,             \* match_sections: the position in removed_rows
    args,           \* _status: the arguments <<old, new>>
    ret             \* _status: what the call returned

vars == <<pc, text, lines, li, seg, units, old_text, new_text, old_units, new_units,
          matched, removed_rows, remaining_new, ri, args, ret>>

segVars == <<text, lines, li, seg, units>>

docVars == <<old_text, new_text>>

alignVars == <<old_units, new_units, matched, removed_rows, remaining_new, ri>>

statusVars == <<args, ret>>

SegIdle == text = "" /\ lines = <<>> /\ li = 1 /\ seg = SegStart /\ units = <<>>

DocIdle == old_text = "" /\ new_text = ""

AlignIdle == /\ old_units = <<>> /\ new_units = <<>> /\ matched = <<>>
             /\ removed_rows = <<>> /\ remaining_new = <<>> /\ ri = 1

StatusIdle == args = <<"", "">> /\ ret = <<>>

(***************************************************************************)
(* split_sections, one line at a time.                                     *)
(***************************************************************************)
InitSegment == /\ pc = "split"
               /\ text \in SegTexts
               /\ lines = <<>> /\ li = 1 /\ seg = SegStart /\ units = <<>>
               /\ DocIdle /\ AlignIdle /\ StatusIdle

\* lines 32-41
Begin == /\ pc = "split"
         /\ lines' = SplitLines(normalize(text))
         /\ pc' = "lines"
         /\ UNCHANGED <<text, li, seg, units, docVars, alignVars, statusVars>>

\* lines 81-83
BlankLine == /\ pc = "lines"
             /\ li <= Len(lines)
             /\ LineKind(seg, lines[li]) = "blank"
             /\ seg' = OnBlank(seg, lines[li])
             /\ li' = li + 1
             /\ UNCHANGED <<pc, text, lines, units, docVars, alignVars, statusVars>>

\* lines 86-91
ChapterLine == /\ pc = "lines"
               /\ li <= Len(lines)
               /\ LineKind(seg, lines[li]) = "chapter"
               /\ seg' = OnChapter(seg, lines[li])
               /\ li' = li + 1
               /\ UNCHANGED <<pc, text, lines, units, docVars, alignVars, statusVars>>

\* lines 94-97
ShoutyLine == /\ pc = "lines"
              /\ li <= Len(lines)
              /\ LineKind(seg, lines[li]) = "shouty"
              /\ seg' = OnShouty(seg, lines[li])
              /\ li' = li + 1
              /\ UNCHANGED <<pc, text, lines, units, docVars, alignVars, statusVars>>

\* lines 100-107
SectionLine == /\ pc = "lines"
               /\ li <= Len(lines)
               /\ LineKind(seg, lines[li]) = "section"
               /\ seg' = OnSection(seg, lines[li])
               /\ li' = li + 1
               /\ UNCHANGED <<pc, text, lines, units, docVars, alignVars, statusVars>>

\* lines 110-115
NumericLine == /\ pc = "lines"
               /\ li <= Len(lines)
               /\ LineKind(seg, lines[li]) = "numeric"
               /\ seg' = OnNumeric(seg, lines[li])
               /\ li' = li + 1
               /\ UNCHANGED <<pc, text, lines, units, docVars, alignVars, statusVars>>

\* lines 118
BodyLine == /\ pc = "lines"
            /\ li <= Len(lines)
            /\ LineKind(seg, lines[li]) = "body"
            /\ seg' = OnBody(seg, lines[li])
            /\ li' = li + 1
            /\ UNCHANGED <<pc, text, lines, units, docVars, alignVars, statusVars>>

\* lines 120-125
Finish == /\ pc = "lines"
          /\ li > Len(lines)
          /\ \E f \in {flush_section(seg)} :
                /\ seg' = f
                /\ units' = BackfillAll(f.units)
          /\ pc' = "returned"
          /\ UNCHANGED <<text, lines, li, docVars, alignVars, statusVars>>

NextSegment == \/ Begin \/ BlankLine \/ ChapterLine \/ ShoutyLine \/ SectionLine
               \/ NumericLine \/ BodyLine \/ Finish

SpecSegment == InitSegment /\ [][NextSegment]_vars

(***************************************************************************)
(* match_sections.                                                         *)
(***************************************************************************)
Init == /\ pc = "phase1"
        /\ old_units \in SeqsUpTo(OldPool, MaxOld)
        /\ new_units \in SeqsUpTo(NewPool, MaxNew)
        /\ matched = <<>> /\ removed_rows = <<>> /\ remaining_new = <<>> /\ ri = 1
        /\ SegIdle /\ DocIdle /\ StatusIdle

\* lines 12-29
Phase1 ==
    /\ pc = "phase1"
    /\ \E old_map \in {UnitMap(old_units)}, new_map \in {UnitMap(new_units)} :
          \E rows \in {ExactRows(old_map, new_map)} :
             /\ matched' = rows
             /\ removed_rows' = RemovedRows(rows)
             /\ remaining_new' = RemainingNew(old_map, new_map)
    /\ ri' = 1
    /\ pc' = "phase2"
    /\ UNCHANGED <<old_units, new_units, segVars, docVars, statusVars>>

\* one turn of the loop of lines 30-51
Phase2Step ==
    /\ pc = "phase2"
    /\ ri <= Len(removed_rows)
    /\ remaining_new # <<>>
    /\ \E after \in {FuzzyStep(matched, remaining_new, removed_rows[ri])} :
          /\ matched' = after[1]
          /\ remaining_new' = after[2]
    /\ ri' = ri + 1
    /\ UNCHANGED <<pc, old_units, new_units, removed_rows, segVars, docVars, statusVars>>

\* the end of the loop (or its break, line 32), then lines 54-56
Phase3 ==
    /\ pc = "phase2"
    /\ ~(ri <= Len(removed_rows) /\ remaining_new # <<>>)
    /\ matched' = matched \o AddedRows(remaining_new)
    /\ pc' = "done"
    /\ UNCHANGED <<old_units, new_units, removed_rows, remaining_new, ri,
                   segVars, docVars, statusVars>>

Next == Phase1 \/ Phase2Step \/ Phase3

Spec == Init /\ [][Next]_vars

(***************************************************************************)
(* The comparison of app.py: both texts segmented, the results aligned.    *)
(***************************************************************************)
InitCompare == /\ pc = "parse_old"
               /\ old_text \in DocTexts
               /\ new_text \in DocTexts
               /\ SegIdle /\ AlignIdle /\ StatusIdle

\* app.py line 43
ParseOld == /\ pc = "parse_old"
            /\ old_units' = split_sections(old_text)
            /\ pc' = "parse_new"
            /\ UNCHANGED <<new_units, matched, removed_rows, remaining_new, ri,
                           segVars, docVars, statusVars>>

\* app.py line 44
ParseNew == /\ pc = "parse_new"
            /\ new_units' = split_sections(new_text)
            /\ pc' = "phase1"
            /\ UNCHANGED <<old_units, matched, removed_rows, remaining_new, ri,
                           segVars, docVars, statusVars>>

NextCompare == ParseOld \/ ParseNew \/ Phase1 \/ Phase2Step \/ Phase3

SpecCompare == InitCompare /\ [][NextCompare]_vars

(***************************************************************************)
(* _status on its own.                                                     *)
(***************************************************************************)
InitStatus == /\ pc = "call"
              /\ args \in StatusArgs \X StatusArgs
              /\ ret = <<>>
              /\ SegIdle /\ DocIdle /\ AlignIdle

CallStatus == /\ pc = "call"
              /\ ret' = _status(args[1], args[2])
              /\ pc' = "called"
              /\ UNCHANGED <<args, segVars, docVars, alignVars>>

NextStatus == CallStatus

SpecStatus == InitStatus /\ [][NextStatus]_vars

(***************************************************************************)
(* match_sections on units chosen for the selection of phase 2: old units  *)
(* whose keys no new unit has, and new units that tie, that share or do    *)
(* not share the section_ref of an old unit, or that repeat a key.         *)
(***************************************************************************)
SelectOld == {Unit("CHAPTER I", "", "section_5", "Section 5 Penalty", "", "fine 100"),
              Unit("CHAPTER I", "", "section_6", "Section 6 Penalty", "", "fine 200")}

SelectNew == {Unit("", "", "section_5", "Section 5 Penalty", "", "fine 100"),
              Unit("", "", "section_5", "Section 5 Penalty", "", "fine 500"),
              Unit("", "", "section_5", "Section 5 Penalty", "(1)", "fine 300"),
              Unit("", "", "section_5", "Section 5 Fines", "(2)", "fine 400"),
              Unit("", "", "section_7", "Section 5 Penalty", "", "fine 400")}

MaxSelectOld == 2

MaxSelectNew == 3

InitSelect == /\ pc = "phase1"
              /\ old_units \in SeqsUpTo(SelectOld, MaxSelectOld)
              /\ new_units \in SeqsUpTo(SelectNew, MaxSelectNew)
              /\ matched = <<>> /\ removed_rows = <<>> /\ remaining_new = <<>> /\ ri = 1
              /\ SegIdle /\ DocIdle /\ StatusIdle

SpecSelect == InitSelect /\ [][Next]_vars

(***************************************************************************)
(* The properties.                                                         *)
(***************************************************************************)
\* the two sides of a row, as units
OldSide(r) == Unit(r.old_topic, r.old_subtopic, r.old_section_ref,
                   r.old_section_heading, r.old_subsection_ref, r.old_text)

NewSide(r) == Unit(r.new_topic, r.new_subtopic, r.new_section_ref,
                   r.new_section_heading, r.new_subsection_ref, r.new_text)

HasOld(r) == OldSide(r) # NoUnit

HasNew(r) == NewSide(r) # NoUnit

Rows == 1..Len(matched)

RowsWith(status) == {j \in Rows : matched[j].status = status}

\* q lists, in order, some of the items of us: its items are found in us
\* at increasing positions
InOrderOf(q, us) ==
    \E f \in [1..Len(q) -> 1..Len(us)] :
        /\ \A n \in 1..Len(q) : us[f[n]] = q[n]
        /\ \A m, n \in 1..Len(q) : m < n => f[m] < f[n]

\* the sides of the rows that have one, in the order of the rows
OldSides == Pick([j \in Rows |-> OldSide(matched[j])], {j \in Rows : HasOld(matched[j])})

AddedSides ==
    Pick([j \in Rows |-> NewSide(matched[j])], {j \in Rows : ~HasOld(matched[j])})

\* the position of the last unit of us with the key k
LastWith(us, k) ==
    CHOOSE i \in 1..Len(us) : key(us[i]) = k /\ \A j \in (i + 1)..Len(us) : key(us[j]) # k

\* C1: a text compared with itself gives only records Unchanged of
\* similarity 100, as many as the segmenter produced units. The code keeps
\* one unit for each composite key, so the count falls short when two units
\* of the text share their key.
SelfComparisonIdentity ==
    (pc = "done" /\ old_text = new_text) =>
        /\ \A j \in Rows : /\ matched[j].status = "Unchanged"
                           /\ matched[j].similarity = Hundred
        /\ Len(matched) = Len(old_units)

\* no composite key is shared and no old heading scores 80 or more against
\* a new heading
DisjointInputs ==
    \A i \in 1..Len(old_units), j \in 1..Len(new_units) :
        /\ key(old_units[i]) # key(new_units[j])
        /\ ~ScoreGE(token_set_ratio(old_units[i].section_heading,
                                    new_units[j].section_heading), 80)

\* C2: disjoint documents give exactly len(old) records Removed and len(new)
\* records Added, and no other record. It fails when two units of a side
\* share their key.
DisjointDocuments ==
    (pc = "done" /\ DisjointInputs) =>
        /\ Cardinality(RowsWith("Removed")) = Len(old_units)
        /\ Cardinality(RowsWith("Added")) = Len(new_units)
        /\ Len(matched) = Len(old_units) + Len(new_units)

OneUnitOf(us, ref, sub) ==
    /\ Len(us) = 1
    /\ us[1].section_ref = ref
    /\ us[1].subsection_ref = sub

\* C3: the two one-line texts of the worked example are each segmented into
\* one unit of section_ref section_5 and subsection_ref (1), and aligned into
\* one record matched by exact_key, Minor edit or Modified, of similarity
\* below 100. The code takes the whole line as the heading of section 5, so
\* the unit has no subsection and no text.
WorkedExample ==
    (pc = "done" /\ old_text = WorkedOld /\ new_text = WorkedNew) =>
        /\ OneUnitOf(old_units, "section_5", "(1)")
        /\ OneUnitOf(new_units, "section_5", "(1)")
        /\ Len(matched) = 1
        /\ matched[1].match_method = "exact_key"
        /\ matched[1].status \in {"Minor edit", "Modified"}
        /\ ScoreGT(Hundred, matched[1].similarity)

\* C4: the records pair the units one to one: each old unit is the old side
\* of exactly one record, each new unit the new side of exactly one record,
\* and a record without an old side is Added, of similarity 0, new_only. It
\* fails when two units of a side share their key.
OneToOne ==
    pc = "done" =>
        /\ \A i \in 1..Len(old_units) :
              Cardinality({j \in Rows : OldSide(matched[j]) = old_units[i]}) = 1
        /\ Cardinality({j \in Rows : HasOld(matched[j])}) = Len(old_units)
        /\ \A i \in 1..Len(new_units) :
              Cardinality({j \in Rows : NewSide(matched[j]) = new_units[i]}) = 1
        /\ Cardinality({j \in Rows : HasNew(matched[j])}) = Len(new_units)
        /\ \A j \in Rows : ~HasOld(matched[j]) =>
              /\ matched[j].status = "Added"
              /\ matched[j].similarity = Zero
              /\ matched[j].match_method = "new_only"

\* the heading scores of the candidates of a row
ScoresOf(r, cands) == {HeadingScore(r, cands[c][2]) : c \in 1..Len(cands)}

\* the best of the scores S
BestOf(S) == CHOOSE b \in S : \A t \in S : ~ScoreGT(t, b)

BestScore(r, cands) == BestOf(ScoresOf(r, cands))

\* the row r upgraded to the row u by the candidate <<k, v>>, which leaves
\* the pool
UpgradedBy(r, u, k, v) ==
    /\ NewSide(u) = v
    /\ u.match_method = "fuzzy_heading"
    /\ <<u.status, u.similarity>> = _status(r.old_text, v.text)
    /\ u.status # "Removed"
    /\ k \notin DictKeys(remaining_new')
    /\ Len(remaining_new') = Len(remaining_new) - 1

StaysRemoved(r) ==
    /\ r.status = "Removed"
    /\ r.similarity = Zero
    /\ r.match_method = "unmatched_old"
    /\ NewSide(r) = NoUnit

\* one turn of the loop of phase 2 on the row at position pos, with the
\* candidates cands of best score best
UpgradeTurn(pos, cands, best) ==
    /\ \A j \in Rows \ {pos} : matched'[j] = matched[j]
    /\ OldSide(matched'[pos]) = OldSide(matched[pos])
    /\ IF ScoreGE(best, 80)
       THEN \E c \in 1..Len(cands) :
               /\ HeadingScore(matched[pos], cands[c][2]) = best
               /\ UpgradedBy(matched[pos], matched'[pos], cands[c][1], cands[c][2])
       ELSE /\ matched'[pos] = matched[pos]
            /\ StaysRemoved(matched[pos])
            /\ remaining_new' = remaining_new

UpgradeAmong(pos, cands) == UpgradeTurn(pos, cands, BestScore(matched[pos], cands))

\* when the call returns, no new unit is the new side of two records and
\* every record still Removed has an empty new side
UpgradeOutcome ==
    /\ \A i, j \in 1..Len(matched') :
          (i # j /\ HasNew(matched'[i]) /\ HasNew(matched'[j])) =>
              key(NewSide(matched'[i])) # key(NewSide(matched'[j]))
    /\ \A j \in 1..Len(matched') :
          matched'[j].status = "Removed" => StaysRemoved(matched'[j])

\* C5: in phase 2 a record left Removed whose best candidate scores at least
\* 80 takes that candidate's fields, match_method fuzzy_heading and the
\* status and similarity of the two body texts, is no longer Removed, and
\* the candidate leaves the pool; otherwise the record stays Removed with
\* similarity 0, unmatched_old and an empty new side.
UpgradeRule ==
    [][/\ (pc = "phase2" /\ pc' = "phase2") =>
             UpgradeAmong(removed_rows[ri],
                          Candidates(matched[removed_rows[ri]], remaining_new))
       /\ pc' = "done" => UpgradeOutcome]_vars

\* a call returned with a record upgraded in phase 2 and a record that
\* stayed Removed
UpgradeReached ==
    /\ pc = "done"
    /\ \E j \in Rows : matched[j].match_method = "fuzzy_heading" /\ HasOld(matched[j])
    /\ \E j \in Rows : matched[j].status = "Removed"

\* C6: the list returned holds the records of the old units in the order
\* the old units were met, then the Added records in the order of the new
\* units, and no Added record comes before a record with an old side. It
\* fails when an old unit repeats the key of an earlier one: the record of
\* that key keeps the place of the first unit and holds the last.
OutputOrdering ==
    pc = "done" =>
        /\ InOrderOf(OldSides, old_units)
        /\ InOrderOf(AddedSides, new_units)
        /\ \A i, j \in Rows : (i < j /\ HasOld(matched[j])) => HasOld(matched[i])

\* C7: every unit split_sections returns has a non-empty section_ref.
SectionRefNeverEmpty ==
    pc = "returned" => \A i \in 1..Len(units) : units[i].section_ref \notin {"", None}

\* a text was segmented into a unit flushed without a heading, whose
\* section_ref the backfill set
BackfillReached ==
    /\ pc = "returned"
    /\ \E i \in 1..Len(units) : /\ units[i].section_heading = ""
                                /\ units[i].section_ref = "auto_section"

\* C8: texts equal after trimming are Unchanged with similarity 100;
\* otherwise the token-set score s alone decides: s >= 90 Minor edit,
\* 65 <= s < 90 Modified, s < 65 Substantially modified, and the similarity
\* returned is s.
StatusRule ==
    (pc = "called" /\ args[1] # None /\ args[2] # None) =>
        IF Strip(args[1]) = Strip(args[2])
        THEN ret = <<"Unchanged", <<100, 1>>>>
        ELSE /\ ret[2] = token_set_ratio(args[1], args[2])
             /\ ret[1] = IF ScoreGE(ret[2], 90) THEN "Minor edit"
                         ELSE IF ScoreGE(ret[2], 65) THEN "Modified"
                         ELSE "Substantially modified"
             /\ ret[2] = <<90, 1>> => ret[1] = "Minor edit"
             /\ ret[2] = <<89, 1>> => ret[1] = "Modified"
             /\ ret[2] = <<65, 1>> => ret[1] = "Modified"
             /\ ret[2] = <<64, 1>> => ret[1] = "Substantially modified"

\* a call returned for two texts whose score is exactly 90
ThresholdReached == pc = "called" /\ ret = <<"Minor edit", <<90, 1>>>>

\* C9: a missing text (None) on one side is treated as the empty string
\* and a status and similarity are returned. The code calls strip() on the
\* missing side, which raises AttributeError.
MissingSide ==
    (pc = "called" /\ (args[1] = None \/ args[2] = None)) =>
        /\ ret # AttributeError
        /\ ret = _status(OrEmpty(args[1]), OrEmpty(args[2]))

\* the side `side` of the rows holds one record for each key of us, taken
\* from the last unit of that key
LastUnitOnly(us, side(_)) ==
    \A i \in 1..Len(us) :
        /\ Cardinality({j \in Rows : key(side(matched[j])) = key(us[i])}) = 1
        /\ \A j \in Rows : key(side(matched[j])) = key(us[i]) =>
              side(matched[j]) = us[LastWith(us, key(us[i]))]

\* C10: of the units of one side that share a composite key the last one is
\* authoritative: one record is produced for the key, with the text and
\* heading of the last unit and the status of its text; the earlier units
\* are on no record.
LastUnitWins ==
    pc = "done" =>
        /\ LastUnitOnly(old_units, OldSide)
        /\ LastUnitOnly(new_units, NewSide)
        /\ \A j \in Rows : (HasOld(matched[j]) /\ HasNew(matched[j])) =>
              <<matched[j].status, matched[j].similarity>>
                  = _status(matched[j].old_text, matched[j].new_text)

\* a call returned for old units of which two share their key and differ in
\* their text, the later one matched against a new unit
DuplicateReached ==
    /\ pc = "done"
    /\ \E i, l \in 1..Len(old_units) :
          /\ i < l
          /\ key(old_units[i]) = key(old_units[l])
          /\ old_units[i].text # old_units[l].text
          /\ \E j \in Rows : OldSide(matched[j]) = old_units[l] /\ HasNew(matched[j])
          /\ \A j \in Rows : OldSide(matched[j]) # old_units[i]

\* the step of split_sections that handles the line at li, a shouty heading
AtShoutyLine ==
    /\ pc = "lines"
    /\ li <= Len(lines)
    /\ LineKind(seg, lines[li]) = "shouty"
    /\ li' = li + 1

\* C11: a shouty heading line flushes the accumulated content, sets
\* subtopic to the line, and changes neither topic nor the open section:
\* current_section_id and current_section_heading are after the line what
\* they were before it. The flush of the code closes the open section (both
\* are None after it), so the body lines that follow belong to no section.
ShoutyFrame ==
    [][AtShoutyLine =>
          /\ seg'.units = flush_section(seg).units
          /\ seg'.current_section_body = <<>>
          /\ seg'.subtopic = Strip(lines[li])
          /\ seg'.topic = seg.topic
          /\ seg'.current_section_id = seg.current_section_id
          /\ seg'.current_section_heading = seg.current_section_heading]_vars

\* the positions of the new units that are on no record yet
Unconsumed ==
    {i \in 1..Len(new_units) : \A j \in Rows : NewSide(matched[j]) # new_units[i]}

\* the candidates of the record r among the positions P: those of its
\* section_ref when there is one, all of P otherwise
SameSectionAmong(r, P) == {i \in P : new_units[i].section_ref = r.old_section_ref}

CandidatesAmong(r, P) ==
    IF SameSectionAmong(r, P) # {} THEN SameSectionAmong(r, P) ELSE P

\* i is the first, in the order of the new units, of the positions of C with
\* the highest heading score against the record r
FirstBest(r, C, i) ==
    /\ i \in C
    /\ \A j \in C : ~ScoreGT(HeadingScore(r, new_units[j]), HeadingScore(r, new_units[i]))
    /\ \A j \in C : j < i =>
          ScoreGT(HeadingScore(r, new_units[i]), HeadingScore(r, new_units[j]))

\* one turn of phase 2 on the record at position pos with the candidates C:
\* the record takes the first best candidate when it scores 80 or more and
\* nothing changes otherwise
SelectTurn(pos, C) ==
    /\ \A j \in Rows \ {pos} : matched'[j] = matched[j]
    /\ \A i \in C : FirstBest(matched[pos], C, i) =>
          IF ScoreGE(HeadingScore(matched[pos], new_units[i]), 80)
          THEN NewSide(matched'[pos]) = new_units[i]
          ELSE matched'[pos] = matched[pos]
    /\ C = {} => matched'[pos] = matched[pos]

\* the turns of phase 2 take the Removed records in the order of the
\* records, each with the new units that the turns before it left
SelectStep ==
    (pc = "phase2" /\ pc' = "phase2") =>
        /\ \A m \in 1..(ri - 1) : removed_rows[m] < removed_rows[ri]
        /\ SelectTurn(removed_rows[ri],
                      CandidatesAmong(matched[removed_rows[ri]], Unconsumed))

\* C12: in phase 2 the candidates of a Removed record are the new units not
\* yet consumed that have its section_ref when there is one and all new
\* units not yet consumed otherwise; the candidate chosen has the highest
\* heading score, the first in the order of the new units among equals; the
\* records are taken in the order of the old units, each with the pool the
\* records before it left. It fails when two new units share their key: the
\* earlier one is no candidate although nothing consumed it.
CandidateSelection == [][SelectStep]_vars

\* no two new units share their key
DistinctNewKeys ==
    \A i, j \in 1..Len(new_units) : i # j => key(new_units[i]) # key(new_units[j])

\* the rule of C12 for new units of distinct keys
SelectionOfDistinctKeys == [][DistinctNewKeys => SelectStep]_vars
====
